---- MODULE Spec2Model ----
(***************************************************************************)
(* Model of the GSA-GCECT certificate portal (src/main.py).                *)
(*                                                                         *)
(* Strings and byte strings are sequences of one-character strings, so     *)
(* that the regular-expression search, the substring tests and the URL     *)
(* construction are computed character by character.  A Python value that  *)
(* may be None is a set with at most one element: None is {} and a value   *)
(* v is {v}.                                                               *)
(***************************************************************************)
EXTENDS Integers, Sequences, FiniteSets, TLC

VARIABLES
    roster,         \* the data frame load_certificate_data returns (cached)
    cache,          \* st.cache_data store of download_pdf_from_drive
    session_state,  \* st.session_state
    selected_name,  \* value of the select box
    rerun_pending,  \* st.rerun() was called: the script runs again at once
    resolution,     \* the last call of convert_drive_link_to_direct and its value
    returned,       \* history: per link, the values the Fetcher has returned so far
    fetch,          \* what the last script run's Fetcher call did
    preview,        \* what the last script run's display_pdf_preview did
    download_button \* data of the download button the last run rendered

vars == <<roster, cache, session_state, selected_name, rerun_pending,
          resolution, returned, fetch, preview, download_button>>

None == {}
Some(v) == {v}
Val(o) == CHOOSE v \in o : TRUE

(***************************************************************************)
(* String helpers (Python str / bytes operations used by the code).        *)
(***************************************************************************)

\* sub in s
Contains(sub, s) ==
    \E i \in 1..(Len(s) - Len(sub) + 1) : SubSeq(s, i, i + Len(sub) - 1) = sub

\* s.startswith(pre)
startswith(s, pre) ==
    Len(pre) <= Len(s) /\ SubSeq(s, 1, Len(pre)) = pre

UpperToLower ==
    ("A" :> "a") @@ ("B" :> "b") @@ ("C" :> "c") @@ ("D" :> "d") @@ ("E" :> "e") @@
    ("F" :> "f") @@ ("G" :> "g") @@ ("H" :> "h") @@ ("I" :> "i") @@ ("J" :> "j") @@
    ("K" :> "k") @@ ("L" :> "l") @@ ("M" :> "m") @@ ("N" :> "n") @@ ("O" :> "o") @@
    ("P" :> "p") @@ ("Q" :> "q") @@ ("R" :> "r") @@ ("S" :> "s") @@ ("T" :> "t") @@
    ("U" :> "u") @@ ("V" :> "v") @@ ("W" :> "w") @@ ("X" :> "x") @@ ("Y" :> "y") @@
    ("Z" :> "z")

\* s.lower()
lower(s) ==
    [i \in 1..Len(s) |-> IF s[i] \in DOMAIN UpperToLower THEN UpperToLower[s[i]] ELSE s[i]]

(***************************************************************************)
(* Link Resolver: convert_drive_link_to_direct.                            *)
(***************************************************************************)

\* the character class [a-zA-Z0-9-_]
IdChars ==
    {"a","b","c","d","e","f","g","h","i","j","k","l","m","n","o","p","q","r","s","t",
     "u","v","w","x","y","z","A","B","C","D","E","F","G","H","I","J","K","L","M","N",
     "O","P","Q","R","S","T","U","V","W","X","Y","Z","0","1","2","3","4","5","6","7",
     "8","9","-","_"}

\* a mutation of patterns: id= is tried before /file/d/
patterns_id_first ==
    << <<"i","d","=">>,
       <<"/","f","i","l","e","/","d","/">>,
       <<"/","d","/">> >>

\* the literal prefixes of the three patterns, in the order they are tried;
\* each pattern is its prefix followed by the group ([a-zA-Z0-9-_]+)
patterns ==
    << <<"/","f","i","l","e","/","d","/">>,
       <<"i","d","=">>,
       <<"/","d","/">> >>

\* the pattern prefix([a-zA-Z0-9-_]+) matches s starting at position i
MatchAt(prefix, s, i) ==
    /\ i + Len(prefix) <= Len(s)
    /\ SubSeq(s, i, i + Len(prefix) - 1) = prefix
    /\ s[i + Len(prefix)] \in IdChars

\* the greedy + : the last position of the run of IdChars that starts at j
RECURSIVE RunEnd(_, _)
RunEnd(s, j) ==
    IF j < Len(s) /\ s[j + 1] \in IdChars THEN RunEnd(s, j + 1) ELSE j

\* re.search(pattern, s) followed by match.group(1): the group of the leftmost
\* match, or None
re_search(prefix, s) ==
    LET starts == {i \in 1..Len(s) : MatchAt(prefix, s, i)} IN
    IF starts = {} THEN None
    ELSE LET i == CHOOSE m \in starts : \A n \in starts : m <= n
             j == i + Len(prefix)
         IN  Some(SubSeq(s, j, RunEnd(s, j)))

\* the loop over patterns with its break: the group of the first pattern, from
\* index k on, that matches
RECURSIVE first_match(_, _)
first_match(drive_link, k) ==
    IF k > Len(patterns) THEN None
    ELSE LET match == re_search(patterns[k], drive_link) IN
         IF match # None THEN match ELSE first_match(drive_link, k + 1)

UcPrefix ==
    <<"h","t","t","p","s",":","/","/","d","r","i","v","e",".","g","o","o","g","l","e",
      ".","c","o","m","/","u","c","?","e","x","p","o","r","t","=","d","o","w","n","l",
      "o","a","d","&","i","d","=">>

ConfirmSuffix == <<"&","c","o","n","f","i","r","m","=","1">>

\* Python truthiness of an optional string
Truthy(o) == o # None /\ Val(o) # <<>>

\* returns <<direct_link, file_id>>
convert_drive_link_to_direct(drive_link) ==
    LET file_id == first_match(drive_link, 1) IN
    IF Truthy(file_id)
    THEN <<Some(UcPrefix \o Val(file_id)), file_id>>
    ELSE <<None, None>>

(***************************************************************************)
(* Fetcher: download_pdf_from_drive.                                       *)
(***************************************************************************)

TextHtml == <<"t","e","x","t","/","h","t","m","l">>
Pdf == <<"p","d","f">>
PdfSignature == <<"%","P","D","F">>

\* what the network can answer to one requests.get: a fault (an exception is
\* raised) or a response with a status, headers and a body
CtHtml ==
    <<"t","e","x","t","/","h","t","m","l",";"," ","c","h","a","r","s","e","t","=",
      "u","t","f","-","8">>
CtPdf == <<"a","p","p","l","i","c","a","t","i","o","n","/","p","d","f">>
BodyPdf == <<"%","P","D","F","-","1",".","4">>
BodyHtml == <<"<","h","t","m","l",">">>

StatusCodes == {200, 404}
HeaderSets == {[k \in {} |-> <<>>], [k \in {"content-type"} |-> CtHtml],
               [k \in {"content-type"} |-> CtPdf]}
Bodies == {<<>>, BodyPdf, BodyHtml}

Fault == [raised |-> TRUE]
Responses ==
    [raised : {FALSE}, status_code : StatusCodes, headers : HeaderSets, content : Bodies]
Outcomes == {Fault} \cup Responses

\* a mutation of retry_condition: the content type is not looked at
retry_condition_status_only(response) ==
    response.status_code # 200

\* a mutation of retry_condition: anything not declared a PDF is retried
retry_condition_not_pdf_type(response) ==
    \/ response.status_code # 200
    \/ ~("content-type" \in DOMAIN response.headers
         /\ Contains(Pdf, response.headers["content-type"]))

\* the condition of the confirm retry
retry_condition(response) ==
    \/ response.status_code # 200
    \/ /\ "content-type" \in DOMAIN response.headers
       /\ Contains(TextHtml, response.headers["content-type"])

\* a mutation of final_result: only a body recognised as a PDF is returned
final_result_pdf_only(response) ==
    IF response.status_code = 200
    THEN LET content_type == IF "content-type" \in DOMAIN response.headers
                             THEN response.headers["content-type"] ELSE <<>>
         IN  IF \/ Contains(Pdf, lower(content_type))
                \/ startswith(response.content, PdfSignature)
             THEN Some(response.content)
             ELSE None
    ELSE None

\* the value returned for the final response
final_result(response) ==
    IF response.status_code = 200
    THEN LET content_type == IF "content-type" \in DOMAIN response.headers
                             THEN response.headers["content-type"] ELSE <<>>
         IN  IF \/ Contains(Pdf, lower(content_type))
                \/ startswith(response.content, PdfSignature)
             THEN Some(response.content)
             ELSE Some(response.content)
    ELSE None

\* a mutation of resolution_failed: an unresolved link is fetched anyway
resolution_failed_never(direct_link) == FALSE

\* if not direct_link
resolution_failed(direct_link) == ~Truthy(direct_link)

\* requests.get(url, allow_redirects=True): what the network may answer
requests_get(url) == Outcomes

\* The try block of download_pdf_from_drive: the set of its possible
\* executions, one for each way the network answers the GETs it issues.  An
\* execution holds the resolver's pair, the GETs issued in order (url and
\* outcome), the returned value, and whether an exception left the block.
download_try(drive_link) ==
    LET resolved == convert_drive_link_to_direct(drive_link)
        direct_link == resolved[1]
        file_id == resolved[2]
        url1 == IF direct_link = None THEN <<>> ELSE Val(direct_link)
        url2 == UcPrefix \o (IF file_id = None THEN <<>> ELSE Val(file_id)) \o ConfirmSuffix
        get(u, o) == [url |-> u, outcome |-> o]
        out(reqs, res, exc) ==
            [resolved |-> resolved, requests |-> reqs, result |-> res, raised |-> exc]
        retry(r1) ==
            { IF r2.raised
              THEN out(<<get(url1, r1), get(url2, r2)>>, None, TRUE)
              ELSE out(<<get(url1, r1), get(url2, r2)>>, final_result(r2), FALSE)
              : r2 \in requests_get(url2) }
    IN
    IF resolution_failed(direct_link) THEN {out(<<>>, None, FALSE)}
    ELSE UNION { IF r1.raised THEN {out(<<get(url1, r1)>>, None, TRUE)}
                 ELSE IF retry_condition(r1) THEN retry(r1)
                 ELSE {out(<<get(url1, r1)>>, final_result(r1), FALSE)}
                 : r1 \in requests_get(url1) }

\* download_pdf_from_drive without its cache: the try block and
\* "except Exception: return None"
download_pdf_from_drive(drive_link) ==
    { IF t.raised THEN [t EXCEPT !.result = None, !.raised = FALSE] ELSE t
      : t \in download_try(drive_link) }

\* a mutation of cache_has: nothing is ever found in the cache
cache_has_never(c, drive_link) == FALSE

\* @st.cache_data: the call's argument is in the cache
cache_has(c, drive_link) == drive_link \in DOMAIN c

\* a mutation of cache_put: a None result is not kept
cache_put_bytes_only(c, drive_link, result) ==
    IF result = None THEN c
    ELSE [l \in DOMAIN c \cup {drive_link} |-> IF l = drive_link THEN result ELSE c[l]]

\* @st.cache_data: the returned value is kept under the call's argument
cache_put(c, drive_link, result) ==
    [l \in DOMAIN c \cup {drive_link} |-> IF l = drive_link THEN result ELSE c[l]]

NoFetch ==
    [called |-> FALSE, hit |-> FALSE, drive_link |-> <<>>, requests |-> <<>>,
     result |-> None, raised |-> FALSE]

\* A call of the cache-decorated download_pdf_from_drive: its possible
\* executions, each with the new cache, the resolver call made (if any) and
\* what the call did.
cached_download(c, drive_link) ==
    IF cache_has(c, drive_link)
    THEN {[cache |-> c,
           resolution |-> resolution,
           fetch |-> [called |-> TRUE, hit |-> TRUE, drive_link |-> drive_link,
                      requests |-> <<>>, result |-> c[drive_link], raised |-> FALSE]]}
    ELSE {[cache |-> IF d.raised THEN c ELSE cache_put(c, drive_link, d.result),
           resolution |-> Some([drive_link |-> drive_link,
                                direct_link |-> d.resolved[1],
                                file_id |-> d.resolved[2]]),
           fetch |-> [called |-> TRUE, hit |-> FALSE, drive_link |-> drive_link,
                      requests |-> d.requests, result |-> d.result, raised |-> d.raised]]
          : d \in download_pdf_from_drive(drive_link)}

(***************************************************************************)
(* Preview Renderer: display_pdf_preview.                                  *)
(***************************************************************************)

\* What fitz, PIL and st.image can do with the bytes: each call of the try
\* block may raise; the document may have no page.
FitzOutcomes ==
    {"open_raises", "zero_pages", "load_page_raises", "get_pixmap_raises",
     "tobytes_raises", "image_open_raises", "st_image_raises", "ok"}

ErrorEmpty == "PDF appears to be empty"
ErrorPreview == "Error displaying PDF preview"
InfoStillDownload == "You can still download the certificate using the button below."

NoPreview ==
    [entered |-> FALSE, lib |-> "", opened |-> FALSE, closed |-> FALSE, ui |-> <<>>,
     raised |-> FALSE]

\* a mutation of display_pdf_preview: no except clause
display_pdf_preview_no_except(pdf_content, fz) ==
    LET out(o, c, u, exc) ==
            [entered |-> TRUE, lib |-> fz, opened |-> o, closed |-> c, ui |-> u,
             raised |-> exc]
    IN
    IF fz = "open_raises" THEN out(FALSE, FALSE, <<>>, TRUE)
    ELSE IF fz = "zero_pages" THEN out(TRUE, TRUE, <<ErrorEmpty>>, FALSE)
    ELSE IF fz \in {"load_page_raises", "get_pixmap_raises", "tobytes_raises",
                    "image_open_raises"}
    THEN out(TRUE, FALSE, <<>>, TRUE)
    ELSE IF fz = "st_image_raises" THEN out(TRUE, TRUE, <<>>, TRUE)
    ELSE out(TRUE, TRUE, <<"image">>, FALSE)

\* display_pdf_preview: what the library did, whether the document was opened,
\* whether close() was called on it, what was put on the page, and whether an
\* exception left the function
display_pdf_preview(pdf_content, fz) ==
    LET out(o, c, u) ==
            [entered |-> TRUE, lib |-> fz, opened |-> o, closed |-> c, ui |-> u,
             raised |-> FALSE]
        failure == <<ErrorPreview, InfoStillDownload>>
    IN
    \* fitz.open raises
    IF fz = "open_raises" THEN out(FALSE, FALSE, failure)
    \* page_count == 0: st.error, close, return
    ELSE IF fz = "zero_pages" THEN out(TRUE, TRUE, <<ErrorEmpty>>)
    \* pdf_document[0], get_pixmap, tobytes or Image.open raises: the except
    \* clause runs; close() is after them in the try block
    ELSE IF fz \in {"load_page_raises", "get_pixmap_raises", "tobytes_raises",
                    "image_open_raises"}
    THEN out(TRUE, FALSE, failure)
    \* st.image raises, after close()
    ELSE IF fz = "st_image_raises" THEN out(TRUE, TRUE, failure)
    ELSE out(TRUE, TRUE, <<"image">>)

(***************************************************************************)
(* main: one run of the script.                                            *)
(***************************************************************************)

Placeholder == "Select your name..."

\* df["Name"].tolist()
names(df) == {df[i].Name : i \in 1..Len(df)}

\* df[df["Name"] == selected_name]["Drive_Link"].iloc[0]
lookup_drive_link(df, name) ==
    LET rows == {i \in 1..Len(df) : df[i].Name = name} IN
    df[CHOOSE i \in rows : \A j \in rows : i <= j].Drive_Link

\* a mutation of fetch_succeeded: only None counts as a failure
fetch_succeeded_not_none(pdf_content) == pdf_content # None

\* if pdf_content
fetch_succeeded(pdf_content) == Truthy(pdf_content)

\* the condition of the preview branch
preview_condition(ss, sel) ==
    /\ "pdf_content" \in DOMAIN ss
    /\ "selected_name" \in DOMAIN ss
    /\ ss["selected_name"] = sel

\* One run of main with the select box at sel and the "Get Certificate" button
\* pressed or not.  What the network and the PDF library do is chosen where
\* the run calls them.
main(sel, button) ==
    LET found == sel # Placeholder /\ sel \in names(roster) IN
    \E call \in IF roster # <<>> /\ found /\ button
                THEN cached_download(cache, lookup_drive_link(roster, sel))
                ELSE {[cache |-> cache, resolution |-> resolution, fetch |-> NoFetch]} :
    LET
        pdf_content == call.fetch.result
        stored == call.fetch.called /\ ~call.fetch.raised /\ fetch_succeeded(pdf_content)
        ss == IF stored
              THEN [k \in {"pdf_content", "selected_name"} |->
                        IF k = "pdf_content" THEN Val(pdf_content) ELSE sel]
              ELSE session_state
    IN
    /\ selected_name' = sel
    /\ cache' = call.cache
    /\ resolution' = call.resolution
    /\ fetch' = call.fetch
    /\ returned' = IF call.fetch.called /\ ~call.fetch.raised
                   THEN [returned EXCEPT ![call.fetch.drive_link] = @ \cup {call.fetch.result}]
                   ELSE returned
    /\ session_state' = ss
    \* st.rerun() ends the run before the preview column
    /\ rerun_pending' = stored
    /\ IF roster # <<>> /\ ~stored /\ ~call.fetch.raised /\ preview_condition(ss, sel)
       THEN \E fz \in FitzOutcomes :
              LET shown == display_pdf_preview(ss["pdf_content"], fz) IN
              /\ preview' = shown
              \* an exception out of the preview ends the run before the button
              /\ download_button' = IF shown.raised THEN None
                                    ELSE Some(ss["pdf_content"])
       ELSE /\ preview' = NoPreview
            /\ download_button' = None
    /\ UNCHANGED roster

(***************************************************************************)
(* The portal: the roster, the user's interactions.                        *)
(***************************************************************************)

LinkAnn == <<"/","f","i","l","e","/","d","/","A","1","/","v","i","e","w">>
LinkBob == <<"o","p","e","n","?","i","d","=","B","_","2">>
LinkAnn2 == <<"/","d","/","C","3">>
LinkCy == <<"n","o","t","-","a","-","l","i","n","k">>
LinkDee == <<"u","c","?","i","d","=">>

\* certificates.csv: two rows share a name, two links cannot be resolved
Roster ==
    << [Name |-> "Ann", Drive_Link |-> LinkAnn],
       [Name |-> "Bob", Drive_Link |-> LinkBob],
       [Name |-> "Ann", Drive_Link |-> LinkAnn2],
       [Name |-> "Cy", Drive_Link |-> LinkCy],
       [Name |-> "Dee", Drive_Link |-> LinkDee] >>

RosterLinks(df) == {df[i].Drive_Link : i \in 1..Len(df)}

\* the state after the first run of the script
InitWith(df) ==
    /\ roster = df
    /\ cache = [l \in {} |-> None]
    /\ session_state = [k \in {} |-> None]
    /\ selected_name = Placeholder
    /\ rerun_pending = FALSE
    /\ resolution = None
    /\ returned = [l \in RosterLinks(df) |-> {}]
    /\ fetch = NoFetch
    /\ preview = NoPreview
    /\ download_button = None

Init == InitWith(Roster)

\* the user picks another entry of the select box
SelectName ==
    /\ ~rerun_pending
    /\ \E n \in {Placeholder} \cup names(roster) :
        /\ n # selected_name
        /\ main(n, FALSE)

\* the user presses "Get Certificate", which the last run rendered
PressGetCertificate ==
    /\ ~rerun_pending
    /\ selected_name # Placeholder /\ selected_name \in names(roster)
    /\ main(selected_name, TRUE)

\* the run st.rerun() asked for
Rerun ==
    /\ rerun_pending
    /\ main(selected_name, FALSE)

\* the user presses the download button, which the last run rendered
PressDownload ==
    /\ ~rerun_pending
    /\ download_button # None
    /\ main(selected_name, FALSE)

Next == SelectName \/ PressGetCertificate \/ Rerun \/ PressDownload

Spec == Init /\ [][Next]_vars

(***************************************************************************)
(* The resolver alone, on links built from a few tokens.                   *)
(***************************************************************************)

MaxTokens == 4

Tokens ==
    { <<"/","f","i","l","e","/","d","/">>, <<"i","d","=">>, <<"/","d","/">>,
      <<"A">>, <<"b","_">>, <<"-","9">>, <<"/">>, <<"=">> }

RECURSIVE Flatten(_)
Flatten(ts) == IF ts = <<>> THEN <<>> ELSE Head(ts) \o Flatten(Tail(ts))

Links == {Flatten(ts) : ts \in UNION {[1..n -> Tokens] : n \in 0..MaxTokens}}

InitLinks == \E l \in Links : InitWith(<< [Name |-> "Ann", Drive_Link |-> l] >>)

\* convert_drive_link_to_direct is applied to the link
Resolve ==
    /\ resolution = None
    /\ LET drive_link == roster[1].Drive_Link
           resolved == convert_drive_link_to_direct(drive_link)
       IN  resolution' = Some([drive_link |-> drive_link,
                               direct_link |-> resolved[1],
                               file_id |-> resolved[2]])
    /\ UNCHANGED <<roster, cache, session_state, selected_name, rerun_pending,
                   returned, fetch, preview, download_button>>

NextLinks == Resolve

SpecLinks == InitLinks /\ [][NextLinks]_vars

(***************************************************************************)
(* Properties.                                                             *)
(***************************************************************************)

\* the <ID>s of the shape prefix<ID> in s: every maximal non-empty run of
\* letters, digits, '-' and '_' that directly follows an occurrence of prefix
Captures(prefix, s) ==
    { SubSeq(s, p[1], p[2]) :
        p \in { q \in (1..Len(s)) \X (1..Len(s)) :
                  /\ q[1] <= q[2]
                  /\ q[1] > Len(prefix)
                  /\ SubSeq(s, q[1] - Len(prefix), q[1] - 1) = prefix
                  /\ \A m \in q[1]..q[2] : s[m] \in IdChars
                  /\ (q[2] = Len(s) \/ s[q[2] + 1] \notin IdChars) } }

ShapeFileD(s) == Captures(<<"/","f","i","l","e","/","d","/">>, s)
ShapeId(s) == Captures(<<"i","d","=">>, s)
ShapeD(s) == Captures(<<"/","d","/">>, s)
NoShape(s) == ShapeFileD(s) \cup ShapeId(s) \cup ShapeD(s) = {}

\* the response declares a text/html content type
DeclaresHtml(response) ==
    /\ "content-type" \in DOMAIN response.headers
    /\ Contains(<<"t","e","x","t","/","h","t","m","l">>, response.headers["content-type"])

\* the last run called the Fetcher and the call was not answered by the cache
Fetched == fetch.called /\ ~fetch.hit

\* C1: for a link that contains one of the shapes /file/d/<ID>, id=<ID>, /d/<ID>,
\* the resolver returns as FileID an <ID> of the highest-priority shape that
\* occurs in the link (/file/d/ before id= before /d/), and as DirectURL
\* "https://drive.google.com/uc?export=download&id=" followed by that FileID.
C1_ResolvesByPriority ==
    \A r \in resolution :
        LET s == r.drive_link
            best == IF ShapeFileD(s) # {} THEN ShapeFileD(s)
                    ELSE IF ShapeId(s) # {} THEN ShapeId(s)
                    ELSE ShapeD(s)
        IN  ~NoShape(s) =>
                /\ r.file_id # None
                /\ Val(r.file_id) \in best
                /\ r.direct_link = Some(UcPrefix \o Val(r.file_id))

\* a link with an id= shape and a different /d/ shape was resolved to the id= one
C1_Witness ==
    \E r \in resolution :
        /\ ShapeFileD(r.drive_link) = {}
        /\ ShapeId(r.drive_link) # {}
        /\ ShapeD(r.drive_link) # {}
        /\ ShapeId(r.drive_link) \cap ShapeD(r.drive_link) = {}
        /\ r.file_id # None
        /\ Val(r.file_id) \in ShapeId(r.drive_link)

\* C2: for a link that matches none of the three shapes the resolver returns
\* (absent, absent) and the Fetcher returns no bytes after zero HTTP requests.
C2_UnresolvableNoRequest ==
    (fetch.called /\ NoShape(fetch.drive_link)) =>
        /\ fetch.result = None
        /\ fetch.requests = <<>>
        /\ ~fetch.raised
        /\ ~fetch.hit =>
              resolution = Some([drive_link |-> fetch.drive_link,
                                 direct_link |-> None, file_id |-> None])

\* the Fetcher body ran on a link without any shape
C2_Witness ==
    Fetched /\ NoShape(fetch.drive_link) /\ fetch.drive_link = LinkCy

\* C3: when the first response has a non-200 status or declares text/html, the
\* Fetcher issues exactly one more GET, to the direct URL of the same FileID
\* with &confirm=1 appended, and returns the second body if the second status
\* is 200; no call issues more than two requests.
C3_ConfirmRetry ==
    fetch.called =>
        /\ Len(fetch.requests) <= 2
        /\ (/\ fetch.requests # <<>>
            /\ ~fetch.requests[1].outcome.raised
            /\ \/ fetch.requests[1].outcome.status_code # 200
               \/ DeclaresHtml(fetch.requests[1].outcome)) =>
              LET id == Val(Val(resolution).file_id) IN
              /\ Len(fetch.requests) = 2
              /\ fetch.requests[1].url = UcPrefix \o id
              /\ fetch.requests[2].url = UcPrefix \o id \o ConfirmSuffix
              /\ (/\ ~fetch.requests[2].outcome.raised
                  /\ fetch.requests[2].outcome.status_code = 200) =>
                    fetch.result = Some(fetch.requests[2].outcome.content)

\* a 200 text/html first response was retried and the second, 200, body returned
C3_Witness ==
    /\ Fetched
    /\ Len(fetch.requests) = 2
    /\ fetch.requests[1].outcome.status_code = 200
    /\ DeclaresHtml(fetch.requests[1].outcome)
    /\ ~fetch.requests[2].outcome.raised
    /\ fetch.requests[2].outcome.status_code = 200
    /\ fetch.requests[2].outcome.content = BodyPdf
    /\ fetch.result = Some(BodyPdf)

\* the first response is a 200 whose body starts with %PDF
FirstIsPdfBody ==
    /\ Fetched
    /\ fetch.requests # <<>>
    /\ ~fetch.requests[1].outcome.raised
    /\ fetch.requests[1].outcome.status_code = 200
    /\ startswith(fetch.requests[1].outcome.content, <<"%","P","D","F">>)

\* C4 as stated: a first response with status 200 and a body starting with %PDF
\* is returned unchanged with no retry, whatever content type it declares.
C4_NoRetryAnyContentType ==
    FirstIsPdfBody =>
        /\ Len(fetch.requests) = 1
        /\ fetch.result = Some(fetch.requests[1].outcome.content)

\* C4 amended: a first response with status 200 and a body starting with %PDF
\* that does not declare a text/html content type is returned unchanged with
\* no retry.
C4_NoRetryUnlessHtml ==
    (FirstIsPdfBody /\ ~DeclaresHtml(fetch.requests[1].outcome)) =>
        /\ Len(fetch.requests) = 1
        /\ fetch.result = Some(fetch.requests[1].outcome.content)

\* a 200 %PDF first response without a content type was returned at once
C4_Witness ==
    /\ FirstIsPdfBody
    /\ "content-type" \notin DOMAIN fetch.requests[1].outcome.headers
    /\ Len(fetch.requests) = 1
    /\ fetch.result = Some(BodyPdf)

\* C5: the Fetcher returns the body of the final response exactly when the link
\* was resolved, no request raised a fault and the final status is 200,
\* whatever the content type and the body; otherwise it returns no bytes; no
\* fault leaves the function.
C5_FinalBodyOrNone ==
    Fetched =>
        LET reqs == fetch.requests
            success ==
                /\ Val(resolution).direct_link # None
                /\ reqs # <<>>
                /\ \A i \in 1..Len(reqs) : ~reqs[i].outcome.raised
                /\ reqs[Len(reqs)].outcome.status_code = 200
        IN  /\ ~fetch.raised
            /\ fetch.result = IF success THEN Some(reqs[Len(reqs)].outcome.content)
                              ELSE None

\* a retried response with status 200 that is not a PDF by type or signature
\* was returned
C5_Witness ==
    /\ Fetched
    /\ Len(fetch.requests) = 2
    /\ ~fetch.requests[2].outcome.raised
    /\ fetch.requests[2].outcome.status_code = 200
    /\ DeclaresHtml(fetch.requests[2].outcome)
    /\ fetch.requests[2].outcome.content = BodyHtml
    /\ fetch.result = Some(BodyHtml)

\* C6: once a call with link L has returned bytes, every later call with L
\* issues no request and returns the same bytes.
C6_MemoizedSuccess ==
    [][ (fetch'.called /\ \E b \in returned[fetch'.drive_link] : b # None) =>
            /\ fetch'.requests = <<>>
            /\ \A b \in returned[fetch'.drive_link] : fetch'.result = b ]_vars

\* a call was answered with bytes from the cache after a call with another link
C6_Witness ==
    /\ fetch.called
    /\ fetch.hit
    /\ fetch.result # None
    /\ \E l \in DOMAIN returned : l # fetch.drive_link /\ returned[l] # {}

\* C7: display_pdf_preview has closed the document it opened when it returns,
\* on every path.
C7_DocumentClosed ==
    (preview.entered /\ preview.opened) => preview.closed

\* C8: whenever a run of main reaches the preview branch, no fault leaves
\* display_pdf_preview and the download button with the stored bytes is
\* rendered; a document that cannot be opened is reported as "Error
\* displaying PDF preview", one without pages as "PDF appears to be empty".
C8_PreviewNeverBlocksDownload ==
    /\ (/\ ~rerun_pending
        /\ "pdf_content" \in DOMAIN session_state
        /\ "selected_name" \in DOMAIN session_state
        /\ session_state["selected_name"] = selected_name) => preview.entered
    /\ preview.entered =>
        /\ ~preview.raised
        /\ download_button = Some(session_state["pdf_content"])
        /\ preview.lib = "open_raises" => preview.ui[1] = "Error displaying PDF preview"
        /\ preview.lib = "zero_pages" => preview.ui = <<"PDF appears to be empty">>
        /\ preview.lib = "ok" => preview.ui = <<"image">>

\* the stored bytes could not be opened and the button was rendered
C8_Witness ==
    /\ preview.entered
    /\ preview.lib = "open_raises"
    /\ download_button # None

\* the link of the first roster row with the name
FirstLink(name) ==
    roster[CHOOSE i \in 1..Len(roster) :
              /\ roster[i].Name = name
              /\ \A j \in 1..(i - 1) : roster[j].Name # name].Drive_Link

\* C9: once a call with link L has returned no bytes, every later call with L
\* returns no bytes and issues no request.
C9_MemoizedFailure ==
    [][ (fetch'.called /\ None \in returned[fetch'.drive_link]) =>
            /\ fetch'.requests = <<>>
            /\ fetch'.result = None ]_vars

\* a resolvable link whose fetch had failed was answered None from the cache
C9_Witness ==
    /\ fetch.called
    /\ fetch.hit
    /\ fetch.result = None
    /\ ~NoShape(fetch.drive_link)

\* C10: after every run, a rendered preview and download button carry
\* non-empty bytes that the Fetcher returned for the link of the first roster
\* row named as the selection, and belong to the selected name; a fetch that
\* returns nothing or empty bytes leaves the stored pair unchanged.
C10_StoredArtifact ==
    [][ /\ (preview'.entered \/ download_button' # None) =>
            /\ session_state'["selected_name"] = selected_name'
            /\ session_state'["pdf_content"] # <<>>
            /\ Some(session_state'["pdf_content"]) \in returned'[FirstLink(selected_name')]
            /\ download_button' \subseteq {session_state'["pdf_content"]}
        /\ (fetch'.called /\ (fetch'.result = None \/ fetch'.result = {<<>>})) =>
            session_state' = session_state ]_vars

\* Ann's certificate is offered after Bob's was fetched, and Ann's link is the
\* first of two rows named Ann
C10_Witness ==
    /\ download_button # None
    /\ selected_name = "Ann"
    /\ returned[LinkBob] # {}
    /\ returned[LinkAnn2] = {}

====
